---- MODULE Spec2Model ----
(***************************************************************************)
(* gui_cleaner.py: the clutter scorer (cheap_fallback_score,               *)
(* ai_deletion_score) and the scan / score / act loop of the "Scan Inbox   *)
(* Now" handler.                                                           *)
(*                                                                         *)
(* Text (snippets, keyword list, remote replies) is modelled as sequences  *)
(* of one-character strings, so lower(), `k in s`, str.strip() and float() *)
(* are computed character by character.                                    *)
(*                                                                         *)
(* A Python float is modelled as a record                                  *)
(*     [cls, num, den, ulp]                                                *)
(* cls = "fin": the double nearest to the decimal num/den (in lowest       *)
(* terms), moved by ulp units in the last place (ulp = -1 for the products *)
(* 0.15 * hits that IEEE-754 rounds just below the decimal value, e.g.     *)
(* 0.15 * 3 = 0.44999999999999996); cls = "inf": +/-infinity (sign in      *)
(* num); cls = "nan": NaN.  Only comparisons and min() are applied to      *)
(* scores, and the representation orders them as the doubles are ordered.  *)
(***************************************************************************)
EXTENDS Integers, Sequences, FiniteSets, TLC

VARIABLES
  OPENAI_API_KEY,      \* TRUE iff os.getenv("OPENAI_API_KEY") is a non-empty string
  _client,             \* "OpenAI" (an object of the new SDK) or "None"
  _use_legacy_openai,  \* TRUE iff the legacy SDK is in use
  preview_mode,        \* checkbox "Preview mode (do NOT delete)"
  threshold,           \* slider "Delete threshold", a float
  pc,                  \* position of the handler
  messages,            \* list returned by list_messages: sequence of message ids
  i,                   \* loop index of `for i, msg in enumerate(messages, start=1)`
  snippet,             \* local `snippet`
  score,               \* local `score`
  remote,              \* the chat-completion call made by the last ai_deletion_score
  ui,                  \* the st.info / st.warning / st.error / st.success reports, in order
  progress,            \* value last given to progress.progress, as <<i, total>>
  scoreOf,             \* history of `score`: position in messages -> score computed for it
  fetchCalls,          \* calls of get_snippet, in order: id passed, raised or not
  trashCalls           \* calls of trash_message, in order: id passed, raised or not

vars ==
  << OPENAI_API_KEY, _client, _use_legacy_openai, preview_mode, threshold, pc,
     messages, i, snippet, score, remote, ui, progress, scoreOf, fetchCalls,
     trashCalls >>

----------------------------------------------------------------------------
(* Bounds of the model *)

\* most message references list_messages returns (max_emails, slider 1..100)
MaxMsgs ==
  2

\* most fragments concatenated into a snippet handed to cheap_fallback_score
MaxParts ==
  2

\* most tokens concatenated into a reply of the remote completion
MaxReplyParts ==
  3

----------------------------------------------------------------------------
(* Text *)

Whitespace ==
  {" ", "\n", "\t"}

Digits ==
  {"0", "1", "2", "3", "4", "5", "6", "7", "8", "9"}

DigitVal ==
  "0" :> 0 @@ "1" :> 1 @@ "2" :> 2 @@ "3" :> 3 @@ "4" :> 4 @@
  "5" :> 5 @@ "6" :> 6 @@ "7" :> 7 @@ "8" :> 8 @@ "9" :> 9
UpperToLower ==
  "A" :> "a" @@ "B" :> "b" @@ "C" :> "c" @@ "D" :> "d" @@ "E" :> "e" @@ "F" :> "f" @@
  "G" :> "g" @@ "H" :> "h" @@ "I" :> "i" @@ "J" :> "j" @@ "K" :> "k" @@ "L" :> "l" @@
  "M" :> "m" @@ "N" :> "n" @@ "O" :> "o" @@ "P" :> "p" @@ "Q" :> "q" @@ "R" :> "r" @@
  "S" :> "s" @@ "T" :> "t" @@ "U" :> "u" @@ "V" :> "v" @@ "W" :> "w" @@ "X" :> "x" @@
  "Y" :> "y" @@ "Z" :> "z"

\* str.lower()
Lower(s) ==
  [n \in 1..Len(s) |->
     IF s[n] \in DOMAIN UpperToLower THEN UpperToLower[s[n]] ELSE s[n]]

\* `k in s` for strings: k occurs as a contiguous substring of s
Contains(k, s) ==
  \E n \in 1..(Len(s) - Len(k) + 1) : SubSeq(s, n, n + Len(k) - 1) = k

RECURSIVE LStrip(_)
LStrip(s) ==
  IF s # <<>> /\ Head(s) \in Whitespace THEN LStrip(Tail(s)) ELSE s

RECURSIVE RStrip(_)
RStrip(s) ==
  IF s # <<>> /\ s[Len(s)] \in Whitespace
    THEN RStrip(SubSeq(s, 1, Len(s) - 1))
    ELSE s

\* str.strip()
Strip(s) ==
  RStrip(LStrip(s))

----------------------------------------------------------------------------
(* Floats *)

RECURSIVE GCD(_, _)
GCD(a, b) ==
  IF b = 0 THEN a ELSE GCD(b, a % b)

Abs(n) ==
  IF n < 0 THEN -n ELSE n

\* the finite double nearest to n/d, moved by u units in the last place
Fin(n, d, u) ==
  LET g == GCD(Abs(n), d)
  IN  [cls |-> "fin", num |-> n \div g, den |-> d \div g, ulp |-> u]

NaN ==
  [cls |-> "nan", num |-> 0, den |-> 1, ulp |-> 0]

Inf(sign) ==
  [cls |-> "inf", num |-> sign, den |-> 1, ulp |-> 0]

\* no value: the local is not assigned yet
Unset ==
  [cls |-> "unset", num |-> 0, den |-> 1, ulp |-> 0]

Zero ==
  Fin(0, 1, 0)

One ==
  Fin(1, 1, 0)

Sign(n) ==
  IF n < 0 THEN -1 ELSE IF n > 0 THEN 1 ELSE 0

\* -1, 0, 1 as a is below, equal to, above b (neither is NaN)
Cmp(a, b) ==
  IF a.cls = "inf" \/ b.cls = "inf"
    THEN Sign((IF a.cls = "inf" THEN a.num ELSE 0)
              - (IF b.cls = "inf" THEN b.num ELSE 0))
    ELSE LET d == a.num * b.den - b.num * a.den
         IN  IF d # 0 THEN Sign(d) ELSE Sign(a.ulp - b.ulp)

\* Python a < b, a >= b, a <= b, a == b on floats: False when either is NaN
FLt(a, b) ==
  a.cls # "nan" /\ b.cls # "nan" /\ Cmp(a, b) < 0

FGeq(a, b) ==
  a.cls # "nan" /\ b.cls # "nan" /\ Cmp(a, b) >= 0

FLeq(a, b) ==
  a.cls # "nan" /\ b.cls # "nan" /\ Cmp(a, b) <= 0

FEq(a, b) ==
  a.cls # "nan" /\ b.cls # "nan" /\ Cmp(a, b) = 0

\* Python min(a, b): the first argument unless the second is smaller
PyMin(a, b) ==
  IF FLt(b, a) THEN b ELSE a

\* hit counts whose IEEE-754 product 0.15 * hits lies just below the decimal
\* 15 * hits / 100 (hits 0..16: 0.15 * 3, * 6, * 9, * 12)
RoundedDown015 ==
  {3, 6, 9, 12}

\* the float product 0.15 * hits
Times015(hits) ==
  Fin(15 * hits, 100, IF hits \in RoundedDown015 THEN -1 ELSE 0)

RECURSIVE DecVal(_)
DecVal(ds) ==
  IF ds = <<>>
    THEN 0
    ELSE 10 * DecVal(SubSeq(ds, 1, Len(ds) - 1)) + DigitVal[ds[Len(ds)]]

RECURSIVE Pow10(_)
Pow10(n) ==
  IF n = 0 THEN 1 ELSE 10 * Pow10(n - 1)

HasSign(t) ==
  t # <<>> /\ Head(t) \in {"+", "-"}

Unsigned(t) ==
  IF HasSign(t) THEN Tail(t) ELSE t

SignOf(t) ==
  IF HasSign(t) /\ Head(t) = "-" THEN -1 ELSE 1

IsSpecial(b) ==
  Lower(b) \in {<<"n","a","n">>, <<"i","n","f">>,
                <<"i","n","f","i","n","i","t","y">>}

DotAt(b) ==
  {n \in 1..Len(b) : b[n] = "."}

IsDecimal(b) ==
  /\ \A n \in 1..Len(b) : b[n] \in Digits \cup {"."}
  /\ Cardinality(DotAt(b)) <= 1
  /\ \E n \in 1..Len(b) : b[n] \in Digits

\* float(text) raises ValueError.  The grammar is Python's without exponents
\* and digit-group underscores; no modelled reply uses "e" after a digit or "_".
FloatRaises(text) ==
  LET b == Unsigned(Strip(text))
  IN  ~(IsSpecial(b) \/ IsDecimal(b))

\* float(text) when it does not raise
FloatOf(text) ==
  LET t == Strip(text)
      b == Unsigned(t)
      dot == IF DotAt(b) = {} THEN Len(b) + 1 ELSE CHOOSE n \in DotAt(b) : TRUE
      ip == SubSeq(b, 1, dot - 1)
      fp == SubSeq(b, dot + 1, Len(b))
  IN  IF Lower(b) = <<"n","a","n">> THEN NaN
      ELSE IF IsSpecial(b) THEN Inf(SignOf(t))
      ELSE Fin(SignOf(t) * DecVal(ip \o fp), Pow10(Len(fp)), 0)

----------------------------------------------------------------------------
(* Scoring *)

\* the keyword list of cheap_fallback_score, in source order
Keywords ==
  << <<"u","n","s","u","b","s","c","r","i","b","e">>,
     <<"p","r","o","m","o">>,
     <<"p","r","o","m","o","t","i","o","n">>,
     <<"s","a","l","e">>,
     <<"d","e","a","l">>,
     <<"l","i","m","i","t","e","d"," ","t","i","m","e">>,
     <<"n","e","w","s","l","e","t","t","e","r">>,
     <<"m","a","r","k","e","t","i","n","g">>,
     <<"a","d","v","e","r","t","i","s","e","m","e","n","t">>,
     <<"n","o","-","r","e","p","l","y">>,
     <<"n","o","r","e","p","l","y">>,
     <<"c","a","s","i","n","o">>,
     <<"v","i","a","g","r","a">>,
     <<"w","i","n","n","e","r">>,
     <<"c","o","n","g","r","a","t","u","l","a","t","i","o","n","s">>,
     <<"a","c","t"," ","n","o","w">> >>

\* the loop `for k in [...]: if k in s: hits += 1`, from keyword n on
RECURSIVE CountHits(_, _)
CountHits(s, n) ==
  IF n > Len(Keywords)
    THEN 0
    ELSE (IF Contains(Keywords[n], s) THEN 1 ELSE 0) + CountHits(s, n + 1)

\* the keyword scan on the snippet as given, without lower()
cheap_fallback_score_NoLower(snip) ==
  PyMin(One, Times015(CountHits(snip, 1)))

cheap_fallback_score(snip) ==
  LET s == Lower(snip)
      hits == CountHits(s, 1)
  IN  PyMin(One, Times015(hits))

\* outcomes of the chat-completion call and of reading its message content
NotCalled ==
  [kind |-> "not_called", text |-> <<>>]

Raised ==
  [kind |-> "raised", text |-> <<>>]

NoneContent ==
  [kind |-> "none", text |-> <<>>]

Reply(text) ==
  [kind |-> "text", text |-> text]

\* `not OPENAI_API_KEY or (_client is None and not _use_legacy_openai)`
Unconfigured ==
  ~OPENAI_API_KEY \/ (_client = "None" /\ ~_use_legacy_openai)

\* the try block raises: the create call raises (network, authorization), the
\* content is None (.strip() raises AttributeError), or float() raises ValueError
PrimaryFails(r) ==
  \/ r.kind = "raised"
  \/ r.kind = "none"
  \/ r.kind = "text" /\ FloatRaises(Strip(r.text))

\* a scorer that answers 0.0 when the primary path fails
ai_deletion_score_ZeroOnError(snip, r) ==
  IF Unconfigured THEN cheap_fallback_score(snip)
  ELSE IF PrimaryFails(r) THEN Zero
  ELSE FloatOf(Strip(r.text))

\* r: what the remote completion answers if it is called
ai_deletion_score(snip, r) ==
  IF Unconfigured THEN cheap_fallback_score(snip)
  ELSE IF PrimaryFails(r) THEN cheap_fallback_score(snip)
  ELSE FloatOf(Strip(r.text))

\* the call ai_deletion_score makes, given what the remote would answer
CallMade(r) ==
  IF Unconfigured THEN NotCalled ELSE r

----------------------------------------------------------------------------
(* Inputs *)

\* "Unsubscribe now for a special promo deal": unsubscribe, promo, deal
ExUnsubscribe ==
  <<"U","n","s","u","b","s","c","r","i","b","e"," ","n","o","w"," ","f","o",
    "r"," ","a"," ","s","p","e","c","i","a","l"," ","p","r","o","m","o"," ",
    "d","e","a","l">>

\* "Hi, dinner Friday?": no keyword
ExDinner ==
  <<"H","i",","," ","d","i","n","n","e","r"," ","F","r","i","d","a","y","?">>

\* "Congratulations winner act now": congratulations, winner, act now
ExWinner ==
  <<"C","o","n","g","r","a","t","u","l","a","t","i","o","n","s"," ","w","i",
    "n","n","e","r"," ","a","c","t"," ","n","o","w">>

\* " PROMO": promo; promotion when followed by FragTion
FragPromo ==
  <<" ","P","R","O","M","O">>

\* "tion": no keyword
FragTion ==
  <<"t","i","o","n">>

\* "SALE limited time newsletter marketing advertisement": five keywords
FragBulk ==
  <<"S","A","L","E"," ","l","i","m","i","t","e","d"," ","t","i","m","e"," ",
    "n","e","w","s","l","e","t","t","e","r"," ","m","a","r","k","e","t","i",
    "n","g"," ","a","d","v","e","r","t","i","s","e","m","e","n","t">>

\* " no-reply noreply casino viagra": four keywords
FragSpam ==
  <<" ","n","o","-","r","e","p","l","y"," ","n","o","r","e","p","l","y"," ",
    "c","a","s","i","n","o"," ","v","i","a","g","r","a">>

Fragments ==
  {ExUnsubscribe, ExDinner, ExWinner, FragPromo, FragTion, FragBulk, FragSpam}

RECURSIVE Concats(_, _)
Concats(parts, n) ==
  IF n = 0
    THEN {<<>>}
    ELSE Concats(parts, n - 1)
           \cup {a \o p : a \in Concats(parts, n - 1), p \in parts}

\* snippets handed to the scorer on its own: up to MaxParts fragments
Excerpts ==
  Concats(Fragments, MaxParts)

\* snippets get_snippet returns in a scan ("" is data.get("snippet", ""))
SnippetSamples ==
  {<<>>, ExUnsubscribe, ExDinner, FragBulk \o FragSpam}

ReplyTokens ==
  {<<" ">>, <<"-">>, <<"0", ".">>, <<"1">>, <<"5">>, <<"n","a","n">>,
   <<"i","n","f">>, <<"x">>}

\* answers of the remote completion to the scorer on its own
RemoteOutcomes ==
  {Raised, NoneContent} \cup {Reply(x) : x \in Concats(ReplyTokens, MaxReplyParts)}

\* answers of the remote completion in a scan
RemoteSamples ==
  {Raised,
   Reply(<<"0",".","8">>), Reply(<<" ","0",".","4","5","\n">>),
   Reply(<<"2",".","5">>), Reply(<<"n","a","n">>), Reply(<<"s","p","a","m">>)}

\* positions of the threshold slider (0.0 .. 1.0, step 0.01), in hundredths
ThresholdSteps ==
  {45, 80}

MsgIds ==
  {100 + n : n \in 1..MaxMsgs}

\* what list_messages can return: at most MaxMsgs distinct ids, in any order
Listings ==
  {ms \in UNION {[1..n -> MsgIds] : n \in 0..MaxMsgs} :
     \A a, b \in 1..Len(ms) : a # b => ms[a] # ms[b]}

----------------------------------------------------------------------------
(* Module initialisation, lines 35-48 *)

\* _client after the import attempts
ClientAfterImport(key, newSdkOk) ==
  IF key /\ newSdkOk THEN "OpenAI" ELSE "None"

\* _use_legacy_openai after the import attempts
LegacyAfterImport(key, newSdkOk, legacySdkOk) ==
  key /\ ~newSdkOk /\ legacySdkOk

InitScorer ==
  \E key, newSdkOk, legacySdkOk \in BOOLEAN :
    /\ OPENAI_API_KEY = key
    /\ _client = ClientAfterImport(key, newSdkOk)
    /\ _use_legacy_openai = LegacyAfterImport(key, newSdkOk, legacySdkOk)

InitRun ==
  /\ pc = "idle"
  /\ messages = <<>>
  /\ i = 0
  /\ snippet = <<>>
  /\ score = Unset
  /\ remote = NotCalled
  /\ ui = <<>>
  /\ progress = <<0, 0>>
  /\ scoreOf = <<>>
  /\ fetchCalls = <<>>
  /\ trashCalls = <<>>

Init ==
  /\ InitScorer
  /\ preview_mode \in BOOLEAN
  /\ threshold \in {Fin(k, 100, 0) : k \in ThresholdSteps}
  /\ InitRun

----------------------------------------------------------------------------
(* The "Scan Inbox Now" handler, lines 198-234 *)

config ==
  << OPENAI_API_KEY, _client, _use_legacy_openai, preview_mode, threshold >>

Report(kind, pos) ==
  [kind |-> kind, pos |-> pos]

\* a call of get_snippet or trash_message: the id passed, and whether it raised
Call(id, raised) ==
  [id |-> id, raised |-> raised]

\* get_gmail_service does not return: st.stop() or an exception
AuthFails ==
  /\ pc = "idle"
  /\ pc' = "auth_failed"
  /\ ui' = Append(ui, Report("error_credentials", 0))
  /\ UNCHANGED << config, messages, i, snippet, score, remote, progress,
                  scoreOf, fetchCalls, trashCalls >>

\* list_messages raises (the handler does not catch it)
ListRaises ==
  /\ pc = "idle"
  /\ pc' = "list_failed"
  /\ UNCHANGED << config, messages, i, snippet, score, remote, ui, progress,
                  scoreOf, fetchCalls, trashCalls >>

\* an empty listing that is not reported
ListEmpty_Silent ==
  /\ pc = "idle"
  /\ messages' = <<>>
  /\ pc' = "empty"
  /\ UNCHANGED << config, i, snippet, score, remote, ui, progress, scoreOf,
                  fetchCalls, trashCalls >>

\* `if not messages: st.info("No messages found.")`
ListEmpty ==
  /\ pc = "idle"
  /\ messages' = <<>>
  /\ ui' = Append(ui, Report("no_messages", 0))
  /\ pc' = "empty"
  /\ UNCHANGED << config, i, snippet, score, remote, progress, scoreOf,
                  fetchCalls, trashCalls >>

\* a non-empty listing: progress bar at 0, the loop starts at i = 1
ListSome ==
  /\ pc = "idle"
  /\ \E ms \in Listings \ {<<>>} :
       /\ messages' = ms
       /\ scoreOf' = [k \in 1..Len(ms) |-> Unset]
       /\ progress' = <<0, Len(ms)>>
  /\ i' = 1
  /\ pc' = "fetch"
  /\ UNCHANGED << config, snippet, score, remote, ui, fetchCalls, trashCalls >>

\* a loop that ends after its first iteration
NextIteration_Breaks ==
  /\ progress' = <<i, Len(messages)>>
  /\ i' = i
  /\ pc' = "done"

\* the end of an iteration: progress.progress(min(1.0, i/total)), then the
\* next reference, or the end of the loop
NextIteration ==
  /\ progress' = <<i, Len(messages)>>
  /\ IF i < Len(messages)
       THEN i' = i + 1 /\ pc' = "fetch"
       ELSE i' = i /\ pc' = "done"

GetSnippetOk ==
  /\ pc = "fetch"
  /\ fetchCalls' = Append(fetchCalls, Call(messages[i], FALSE))
  /\ snippet' \in SnippetSamples
  /\ pc' = "score"
  /\ UNCHANGED << config, messages, i, score, remote, ui, progress, scoreOf,
                  trashCalls >>

\* a fetch failure that ends the loop instead of `continue`
GetSnippetFails_Aborts ==
  /\ pc = "fetch"
  /\ fetchCalls' = Append(fetchCalls, Call(messages[i], TRUE))
  /\ ui' = Append(ui, Report("snippet_failed", i))
  /\ progress' = <<i, Len(messages)>>
  /\ pc' = "done"
  /\ UNCHANGED << config, messages, i, snippet, score, remote, scoreOf,
                  trashCalls >>

\* get_snippet raises: st.warning, progress, continue
GetSnippetFails ==
  /\ pc = "fetch"
  /\ fetchCalls' = Append(fetchCalls, Call(messages[i], TRUE))
  /\ ui' = Append(ui, Report("snippet_failed", i))
  /\ NextIteration
  /\ UNCHANGED << config, messages, snippet, score, remote, scoreOf,
                  trashCalls >>

\* score = ai_deletion_score(snippet), then the two st.write lines
Score ==
  /\ pc = "score"
  /\ \E r \in RemoteSamples :
       /\ score' = ai_deletion_score(snippet, r)
       /\ remote' = CallMade(r)
  /\ scoreOf' = [scoreOf EXCEPT ![i] = score']
  /\ ui' = Append(ui, Report("score", i))
  /\ pc' = "act"
  /\ UNCHANGED << config, messages, i, snippet, progress, fetchCalls,
                  trashCalls >>

\* the comparison written `score > threshold`
IsClutter_Strict ==
  FLt(threshold, score)

\* `if score >= threshold`
IsClutter ==
  FGeq(score, threshold)

\* st.warning("[PREVIEW] Would delete this email.")
Preview ==
  /\ pc = "act"
  /\ IsClutter
  /\ preview_mode
  /\ ui' = Append(ui, Report("preview", i))
  /\ NextIteration
  /\ UNCHANGED << config, messages, snippet, score, remote, scoreOf,
                  fetchCalls, trashCalls >>

\* the delete branch taken without looking at preview_mode
TrashOk_IgnoresPreview ==
  /\ pc = "act"
  /\ IsClutter
  /\ trashCalls' = Append(trashCalls, Call(messages[i], FALSE))
  /\ ui' = Append(ui, Report("deleted", i))
  /\ NextIteration
  /\ UNCHANGED << config, messages, snippet, score, remote, scoreOf,
                  fetchCalls >>

\* trash_message returns: st.error("Deleted (moved to Trash).")
TrashOk ==
  /\ pc = "act"
  /\ IsClutter
  /\ ~preview_mode
  /\ trashCalls' = Append(trashCalls, Call(messages[i], FALSE))
  /\ ui' = Append(ui, Report("deleted", i))
  /\ NextIteration
  /\ UNCHANGED << config, messages, snippet, score, remote, scoreOf,
                  fetchCalls >>

\* a failed delete that is tried a second time
TrashFails_Retries ==
  /\ pc = "act"
  /\ IsClutter
  /\ ~preview_mode
  /\ trashCalls' = trashCalls \o << Call(messages[i], TRUE), Call(messages[i], TRUE) >>
  /\ ui' = Append(ui, Report("delete_failed", i))
  /\ NextIteration
  /\ UNCHANGED << config, messages, snippet, score, remote, scoreOf,
                  fetchCalls >>

\* a failed delete that is not caught: the handler ends with the exception
TrashFails_Aborts ==
  /\ pc = "act"
  /\ IsClutter
  /\ ~preview_mode
  /\ trashCalls' = Append(trashCalls, Call(messages[i], TRUE))
  /\ pc' = "done"
  /\ UNCHANGED << config, messages, i, snippet, score, remote, ui, progress,
                  scoreOf, fetchCalls >>

\* trash_message raises: st.warning("Failed to delete: ...")
TrashFails ==
  /\ pc = "act"
  /\ IsClutter
  /\ ~preview_mode
  /\ trashCalls' = Append(trashCalls, Call(messages[i], TRUE))
  /\ ui' = Append(ui, Report("delete_failed", i))
  /\ NextIteration
  /\ UNCHANGED << config, messages, snippet, score, remote, scoreOf,
                  fetchCalls >>

\* st.success("Keeping this email.")
Keep ==
  /\ pc = "act"
  /\ ~IsClutter
  /\ ui' = Append(ui, Report("keeping", i))
  /\ NextIteration
  /\ UNCHANGED << config, messages, snippet, score, remote, scoreOf,
                  fetchCalls, trashCalls >>

Next ==
  \/ AuthFails
  \/ ListRaises
  \/ ListEmpty
  \/ ListSome
  \/ GetSnippetOk
  \/ GetSnippetFails
  \/ Score
  \/ Preview
  \/ TrashOk
  \/ TrashFails
  \/ Keep

Spec ==
  Init /\ [][Next]_vars

----------------------------------------------------------------------------
(* The scorer on its own *)

ScorerInit ==
  /\ InitScorer
  /\ preview_mode = TRUE
  /\ threshold = Fin(80, 100, 0)
  /\ InitRun

loop ==
  << messages, i, ui, progress, scoreOf, fetchCalls, trashCalls >>

CallFallback ==
  /\ pc = "idle"
  /\ \E e \in Excerpts :
       /\ snippet' = e
       /\ score' = cheap_fallback_score(e)
  /\ remote' = NotCalled
  /\ pc' = "fallback_returned"
  /\ UNCHANGED << config, loop >>

CallScorer ==
  /\ pc = "idle"
  /\ \E e \in SnippetSamples, r \in RemoteOutcomes :
       /\ snippet' = e
       /\ score' = ai_deletion_score(e, r)
       /\ remote' = CallMade(r)
  /\ pc' = "scorer_returned"
  /\ UNCHANGED << config, loop >>

ScorerNext ==
  \/ CallFallback
  \/ CallScorer

ScorerSpec ==
  ScorerInit /\ [][ScorerNext]_vars

----------------------------------------------------------------------------
(* Per-message outcomes, read off the reports and the call logs *)

Positions ==
  1..Len(messages)

TerminalKinds ==
  {"snippet_failed", "keeping", "preview", "deleted", "delete_failed"}

ClutterKinds ==
  {"preview", "deleted", "delete_failed"}

\* indices of the terminal reports made for position k
TerminalReports(k) ==
  {n \in 1..Len(ui) : ui[n].pos = k /\ ui[n].kind \in TerminalKinds}

Outcome(k) ==
  IF TerminalReports(k) = {}
    THEN "pending"
    ELSE ui[CHOOSE n \in TerminalReports(k) : TRUE].kind

\* get_snippet was called for position k and returned
Fetched(k) ==
  k <= Len(fetchCalls) /\ ~fetchCalls[k].raised

Scored(k) ==
  \E n \in 1..Len(ui) : ui[n] = Report("score", k)

\* calls of trash_message for the message at position k
TrashCallsFor(k) ==
  {n \in 1..Len(trashCalls) : trashCalls[n].id = messages[k]}

\* position k qualifies for deletion
Qualifies(k) ==
  Fetched(k) /\ Scored(k) /\ FGeq(scoreOf[k], threshold)

RunOver ==
  pc \in {"done", "empty", "auth_failed", "list_failed"}

\* every position after k has been fetched and has its outcome
LaterProcessed(k) ==
  \A j \in Positions :
    j > k => j <= Len(fetchCalls) /\ Outcome(j) # "pending"

\* the loop has left position k behind and is not aborted
MovedPast(k) ==
  \/ pc \in {"fetch", "score", "act"} /\ i > k
  \/ pc = "done" /\ LaterProcessed(k)

----------------------------------------------------------------------------
(* Properties *)

\* C1: in a scan run with preview mode on, trash_message is never called,
\* whatever the scores, the threshold and the fetch outcomes.
C1_PreviewNeverDeletes ==
  preview_mode => trashCalls = <<>>

C1_Witness ==
  /\ preview_mode
  /\ pc = "done"
  /\ \E k \in Positions : Outcome(k) = "preview"
  /\ \E k \in Positions : Outcome(k) = "snippet_failed"

\* C2: with preview mode off, trash_message is called exactly once for every
\* message that was fetched and scored >= threshold (deleted or delete-failed
\* alike, no retry), never for a kept or skipped message, and at the end of
\* the run the number of calls is the number of qualifying messages.
C2_OneDeletePerQualifying ==
  ~preview_mode =>
    /\ \A k \in Positions :
         /\ Cardinality(TrashCallsFor(k)) <= 1
         /\ Outcome(k) # "pending" =>
              Cardinality(TrashCallsFor(k)) = (IF Qualifies(k) THEN 1 ELSE 0)
    /\ \A n \in 1..Len(trashCalls) :
         \E k \in Positions : trashCalls[n].id = messages[k]
    /\ pc = "done" =>
         Len(trashCalls) = Cardinality({k \in Positions : Qualifies(k)})

C2_Witness ==
  /\ ~preview_mode
  /\ pc = "done"
  /\ \E k \in Positions : Outcome(k) = "delete_failed"
  /\ \E k \in Positions : Outcome(k) = "keeping"

\* C3: a fetched and scored message is treated as clutter (previewed, deleted
\* or delete-failed) if and only if score >= threshold, and is reported kept
\* otherwise; a score exactly equal to the threshold is clutter.
C3_ThresholdInclusive ==
  \A k \in Positions :
    (Scored(k) /\ Outcome(k) # "pending") =>
      /\ Outcome(k) \in ClutterKinds <=> FGeq(scoreOf[k], threshold)
      /\ Outcome(k) = "keeping" <=> ~FGeq(scoreOf[k], threshold)
      /\ FEq(scoreOf[k], threshold) => Outcome(k) # "keeping"

C3_Witness ==
  \E k \in Positions :
    /\ FEq(scoreOf[k], threshold)
    /\ FLt(Zero, threshold)
    /\ Outcome(k) \in ClutterKinds

\* C4: a get_snippet failure for a message is not fatal: the message is
\* recorded as skipped, it is neither scored nor deleted, and the loop goes on
\* to every message listed after it.
C4_FetchFailureSkips ==
  \A k \in Positions :
    (k <= Len(fetchCalls) /\ fetchCalls[k].raised) =>
      /\ Outcome(k) = "snippet_failed"
      /\ ~Scored(k)
      /\ scoreOf[k] = Unset
      /\ TrashCallsFor(k) = {}
      /\ MovedPast(k)

C4_Witness ==
  /\ pc = "done"
  /\ \E k \in Positions :
       /\ fetchCalls[k].raised
       /\ \E j \in Positions : j > k /\ Outcome(j) \in {"keeping", "deleted"}

\* C5: a trash_message failure for a qualifying message is reported for that
\* message as delete-failed (never as deleted) and does not abort the run:
\* the loop goes on to every later message.
C5_DeleteFailureContinues ==
  \A k \in Positions :
    (\E n \in TrashCallsFor(k) : trashCalls[n].raised) =>
      /\ ~preview_mode
      /\ Qualifies(k)
      /\ Outcome(k) = "delete_failed"
      /\ \A n \in 1..Len(ui) : ui[n] # Report("deleted", k)
      /\ MovedPast(k)

C5_Witness ==
  /\ pc = "done"
  /\ \E k \in Positions :
       /\ \E n \in TrashCallsFor(k) : trashCalls[n].raised
       /\ \E j \in Positions : j > k /\ Outcome(j) # "pending"

\* C6: every score ai_deletion_score returns lies in [0.0, 1.0], on the
\* fallback path and on the primary path, whatever the remote replies.
C6_ScoreInUnitInterval ==
  pc = "scorer_returned" => FGeq(score, Zero) /\ FLeq(score, One)

\* the reply (when there is one) is not a float literal
ReplyUnparsable ==
  remote.kind = "text" /\ FloatRaises(remote.text)

\* C7: when the remote capability is unconfigured, or the call raises, or the
\* reply is missing or not a float literal, ai_deletion_score returns exactly
\* cheap_fallback_score of the same snippet; it always returns a float.
C7_FailureFallsBack ==
  pc = "scorer_returned" =>
    /\ score.cls \in {"fin", "inf", "nan"}
    /\ (remote.kind \in {"not_called", "raised", "none"} \/ ReplyUnparsable) =>
         score = cheap_fallback_score(snippet)
    /\ remote.kind = "not_called" <=>
         (~OPENAI_API_KEY \/ (_client = "None" /\ ~_use_legacy_openai))

C7_Witness ==
  /\ pc = "scorer_returned"
  /\ OPENAI_API_KEY
  /\ _use_legacy_openai
  /\ ReplyUnparsable
  /\ FLt(Zero, score)

\* number of keywords that occur in the case-folded snippet e
HitSet(e) ==
  {n \in 1..Len(Keywords) : Contains(Keywords[n], Lower(e))}

HitsTable ==
  [e \in Excerpts |-> Cardinality(HitSet(e))]

FallbackTable ==
  [e \in Excerpts |-> cheap_fallback_score(e)]

\* C8: cheap_fallback_score returns min(1.0, 0.15 * hits), hits the number of
\* listed keywords occurring in the case-folded snippet: 0.0 for no hit, 1.0
\* from seven hits on, within [0.0, 1.0], non-decreasing in hits.
C8_FallbackFormula ==
  pc = "fallback_returned" =>
    LET hits == HitsTable[snippet]
    IN  /\ score = (IF 15 * hits >= 100 THEN One ELSE Times015(hits))
        /\ hits = 0 => score = Zero
        /\ hits >= 7 => score = One
        /\ FGeq(score, Zero) /\ FLeq(score, One)
        /\ \A e \in Excerpts :
             /\ HitsTable[e] <= hits => FLeq(FallbackTable[e], score)
             /\ HitsTable[e] >= hits => FGeq(FallbackTable[e], score)

C8_Witness ==
  /\ pc = "fallback_returned"
  /\ HitsTable[snippet] = 7
  /\ score = One
  /\ \E e \in Excerpts : HitsTable[e] = 6 /\ FLt(FallbackTable[e], score)

\* C9: a listing of zero references ends the run in the empty-result state
\* with the single report "No messages found.": no get_snippet call, no
\* score, no trash_message call, no further step; the loop runs only on a
\* non-empty listing.
C9_EmptyListing ==
  /\ pc = "empty" =>
       /\ messages = <<>>
       /\ ui = << Report("no_messages", 0) >>
       /\ fetchCalls = <<>>
       /\ trashCalls = <<>>
       /\ score = Unset
       /\ remote = NotCalled
       /\ ~ENABLED Next
  /\ pc \in {"fetch", "score", "act", "done"} => messages # <<>>

C9_Witness ==
  pc = "empty" /\ Len(ui) = 1

\* steps taken so far by the handler
Measure ==
  Len(fetchCalls) + Len(ui) + (IF pc = "idle" THEN 0 ELSE 1)

\* (in position "score" the Score step is always possible: ai_deletion_score
\* is total)
C10_Order ==
  /\ \A n \in 1..Len(fetchCalls) :
       /\ n <= Len(messages)
       /\ fetchCalls[n].id = messages[n]
       /\ n < Len(fetchCalls) => Outcome(n) # "pending"
  /\ \A k \in Positions :
       /\ Cardinality(TerminalReports(k)) <= 1
       /\ Outcome(k) # "pending" => k <= Len(fetchCalls)
  /\ pc = "done" <=>
       /\ messages # <<>>
       /\ Len(fetchCalls) = Len(messages)
       /\ \A k \in Positions : Cardinality(TerminalReports(k)) = 1
  /\ pc \in {"idle", "fetch", "act"} => ENABLED Next
  /\ pc = "done" => ~ENABLED Next
  /\ Measure <= 3 * Len(messages) + 2

C10_Step ==
  /\ Measure' > Measure
  /\ \A k \in Positions : Outcome(k) # "pending" => Outcome(k)' = Outcome(k)

\* C10: references are processed one at a time in the listed order: position
\* k+1 is fetched only after position k has its terminal outcome, every
\* position gets exactly one terminal outcome which never changes, and the
\* run ends after the last reference: it is over exactly when the last
\* reference has its outcome, and every step before that moves a bounded
\* step count up.
C10_Sequential ==
  []C10_Order /\ [][C10_Step]_vars

C10_Witness ==
  /\ pc = "done"
  /\ Len(messages) >= 2
  /\ messages[1] > messages[2]
  /\ Outcome(1) # Outcome(2)

====
